---- MODULE Spec2Model ----
(***************************************************************************)
(* The mount tree of kernel/aster-nix: MountNode (fs/utils/mount.rs) and   *)
(* the mount flows of syscall/mount.rs that drive it.                      *)
(*                                                                         *)
(* A MountNode is an Arc allocation; the model names it by the order of    *)
(* its allocation (1, 2, ...).  A Dentry is named by the dentry tree it    *)
(* lives in (the node whose constructor made the tree's root with          *)
(* Dentry::new_root) and a name inside that tree; name 0 is the root.      *)
(***************************************************************************)
EXTENDS Integers, Sequences, FiniteSets, TLC

\* Bounds of the model: the MountNodes a run allocates, the MountNodes a run
\* that clones trees allocates, the names of a dentry tree below its root,
\* and the mounts a run moves.
MaxNodes == 3
MaxCopyNodes == 5
MaxName == 2
MaxMoves == 1

\* Option::None of a node handle, and of a filesystem of a free slot.
None == 0

\* The walks of copy_tree are also run on trees of up to MaxPairTree nodes
\* built by mounts, with room for MaxPairNodes nodes.
MaxPairTree == 4
MaxPairNodes == 8
\* Two threads inside mount, umount or a bind start on a tree of at most
\* MaxParTree nodes, with room for MaxParNodes nodes.
MaxParTree == 2
MaxParNodes == 6

MaxSlots ==
    LET S == {MaxNodes, MaxCopyNodes, MaxPairNodes, MaxParNodes}
    IN  CHOOSE m \in S : \A x \in S : x <= m
NodeIds == 1..MaxSlots
Names == 0..MaxName

\* The root mount of the boot namespace (MntNamespace::default).
RootNode == 1

Dentry == [tree : NodeIds, name : Names]
NoDentry == [tree |-> None, name |-> 0]
Path == [mntnode : NodeIds, dentry : Dentry]
NoPath == [mntnode |-> None, dentry |-> NoDentry]

VARIABLES
    alloc,              \* number of MountNodes allocated so far
    fs,                 \* MountNode.fs
    root_dentry,        \* MountNode.root_dentry
    mountpoint_dentry,  \* MountNode.mountpoint_dentry
    parent,             \* MountNode.parent
    children,           \* MountNode.children: DentryKey -> node
    moves,              \* number of mounts moved so far
    last,               \* the call that just returned: arguments and result
    lock,               \* MountNode.children: the thread that holds the mutex
    mv,                 \* the threads inside do_move_mount_old: position, paths
    walker,             \* a thread that crosses a mountpoint: position, reads
    proc,               \* a process: root and cwd of its fs state, the root
                        \* of its mount namespace
    nsproxy,            \* Mutex<Nsproxy>: mnt_ns, net_ns, the holder of the mutex
    setter,             \* a thread inside set_namespaces: position, new handles
    getter,             \* a thread reading the proxy: position, handles read
    sys,                \* the system call that just returned: its number in
                        \* the run, flags, flow, result
    twin                \* two threads inside mount or umount: the calls,
                        \* positions, and the tree they started from

vars == <<alloc, fs, root_dentry, mountpoint_dentry, parent, children, moves, last,
          lock, mv, walker, proc, nsproxy, setter, getter, sys, twin>>

\* The namespace proxy and the threads that use it.
NsVars == <<nsproxy, setter, getter>>

\* The state of the process the calls on the tree leave alone.
ProcVars == <<proc, NsVars, sys, twin>>

\* The state of the threads that run concurrently with the calls, and of the
\* process.
OtherVars == <<lock, mv, walker, ProcVars>>

----------------------------------------------------------------------------
\* The dentry abstraction the mount tree consumes.

\* DentryKey: a key unique to the dentry, ordered (BTreeMap key).
KeyStride == MaxName + 1
Key(d) == d.tree * KeyStride + d.name

\* Dentry::type_() == InodeType::Dir; the last name of a tree is a regular file.
IsDir(d) == d.name # MaxName

\* Dentry::is_root_of_mount: the dentry has no parent dentry.
is_root_of_mount(d) == d.name = 0

\* The paths a resolver can produce inside node n: the node's root dentry,
\* and the entries below it when that root is the root of its dentry tree.
PathsOf(rd, n) ==
    IF rd[n].name = 0
    THEN {[mntnode |-> n, dentry |-> [tree |-> rd[n].tree, name |-> k]] : k \in Names}
    ELSE {[mntnode |-> n, dentry |-> rd[n]]}

AllPaths == UNION {PathsOf(root_dentry, n) : n \in 1..alloc}

----------------------------------------------------------------------------
\* BTreeMap operations on a children map.

EmptyMap == [k \in {} |-> None]

MapInsert(m, k, v) == [x \in DOMAIN m \cup {k} |-> IF x = k THEN v ELSE m[x]]

MapRemove(m, k) == [x \in DOMAIN m \ {k} |-> m[x]]

MapValues(m) == {m[k] : k \in DOMAIN m}

MinKey(S) == CHOOSE k \in S : \A j \in S : k <= j

RECURSIVE SortedKeys(_)
SortedKeys(S) ==
    IF S = {} THEN <<>>
    ELSE LET k == MinKey(S) IN <<k>> \o SortedKeys(S \ {k})

\* BTreeMap::values(): the values in ascending key order.
Values(m) == LET ks == SortedKeys(DOMAIN m) IN [i \in 1..Len(ks) |-> m[ks[i]]]

----------------------------------------------------------------------------
\* The tree as one value, for the operators that transform it.

Cur == [alloc |-> alloc, fs |-> fs, root_dentry |-> root_dentry,
        mountpoint_dentry |-> mountpoint_dentry, parent |-> parent,
        children |-> children]

Commit(T) ==
    /\ alloc' = T.alloc
    /\ fs' = T.fs
    /\ root_dentry' = T.root_dentry
    /\ mountpoint_dentry' = T.mountpoint_dentry
    /\ parent' = T.parent
    /\ children' = T.children

TreeVars == <<alloc, fs, root_dentry, mountpoint_dentry, parent, children>>

\* The record of the call that just returned: its arguments (self, path,
\* src, failing), its result (res, node) and, for sync, the nodes whose
\* filesystem it flushed, in order.
Result(op, self, path, src, failing, res, node, log) ==
    [op |-> op, self |-> self, path |-> path, src |-> src, failing |-> failing,
     res |-> res, node |-> node, log |-> log]

\* What a call returns: the tree it leaves, Ok or the errno, the node returned.
Ret(T, res, node) == [T |-> T, res |-> res, node |-> node]

----------------------------------------------------------------------------
\* MountNode::new: a node with a fresh root dentry.
new(T, f, mountpoint, parent_mount) ==
    LET id == T.alloc + 1 IN
    [T EXCEPT !.alloc = id,
              !.fs[id] = f,
              !.root_dentry[id] = [tree |-> id, name |-> 0],
              !.mountpoint_dentry[id] = mountpoint,
              !.parent[id] = parent_mount,
              !.children[id] = EmptyMap]

\* MountNode::get
get(ch, n, d) == IF Key(d) \in DOMAIN ch[n] THEN ch[n][Key(d)] ELSE None

Install(T) ==
    /\ alloc = T.alloc
    /\ fs = T.fs
    /\ root_dentry = T.root_dentry
    /\ mountpoint_dentry = T.mountpoint_dentry
    /\ parent = T.parent
    /\ children = T.children

Blank == [alloc |-> 0,
          fs |-> [n \in NodeIds |-> None],
          root_dentry |-> [n \in NodeIds |-> NoDentry],
          mountpoint_dentry |-> [n \in NodeIds |-> NoDentry],
          parent |-> [n \in NodeIds |-> None],
          children |-> [n \in NodeIds |-> EmptyMap]]

\* The filesystem of the boot namespace (rootfs).
RootFs == 1

\* The threads that run sys_mount with MS_MOVE concurrently.
NumMovers == 2
Movers == 1..NumMovers

\* A thread outside every call.
IdleMover == [pc |-> "idle", node |-> None, dst |-> NoPath]
IdleReader == [pc |-> "idle", at |-> NoPath, found |-> None,
               snap_parent |-> None, snap_mp |-> NoDentry,
               parent |-> None, mp |-> NoDentry]

\* A process of the boot namespace: root and cwd at the root of the tree.
InitProc ==
    LET slash == [mntnode |-> RootNode, dentry |-> [tree |-> RootNode, name |-> 0]]
    IN  [root |-> slash, cwd |-> slash, ns |-> RootNode]

\* Nsproxy::default: the namespaces of boot, handle 0 each; held is the set
\* of pairs of handles the proxy has held between calls of set_namespaces.
MaxNs == 1
NsHandles == 0..MaxNs
InitNsproxy == [mnt_ns |-> 0, net_ns |-> 0, lock |-> "free", held |-> {<<0, 0>>}]

\* No system call has returned yet.
NoCall == [n |-> 0, call |-> "none", flags |-> {}, target |-> NoPath,
           flow |-> "none", ret |-> "none"]

\* No pair of threads is inside mount or umount.
NoOp == [pc |-> "idle", kind |-> "none", path |-> NoPath, f |-> None, node |-> None,
         src |-> NoPath, stack |-> <<>>, new_stack |-> <<>>]
NoPar == [pc |-> "idle", th |-> <<NoOp, NoOp>>, T0 |-> Blank]

\* No thread holds a children mutex, no thread is inside a call.
Quiet ==
    /\ lock = [n \in NodeIds |-> None]
    /\ mv = [t \in Movers |-> IdleMover]
    /\ walker = IdleReader
    /\ proc = InitProc
    /\ nsproxy = InitNsproxy
    /\ setter = [pc |-> "idle", new |-> <<0, 0>>]
    /\ getter = [pc |-> "idle", mnt_ns |-> 0, net_ns |-> 0]
    /\ sys = NoCall
    /\ twin = NoPar

\* MountNode::new_root for the boot namespace.
Init ==
    /\ Install(new(Blank, RootFs, NoDentry, None))
    /\ moves = 0
    /\ last = Result("boot", None, NoPath, NoPath, {}, "OK", None, <<>>)
    /\ Quiet

----------------------------------------------------------------------------
\* Variants of mount that differ from the code in one step: the child is
\* made without its parent; the type of the entry is checked before its
\* owner; the child is inserted before the entry's type is checked.
mount_parentless(T, self, f, path) ==
    IF path.mntnode # self THEN Ret(T, "EINVAL", None)
    ELSE IF ~IsDir(path.dentry) THEN Ret(T, "ENOTDIR", None)
    ELSE LET key == Key(path.dentry)
             T1 == new(T, f, path.dentry, None)
             child_mount == T1.alloc
         IN  Ret([T1 EXCEPT !.children[self] = MapInsert(@, key, child_mount)],
                 "OK", child_mount)

mount_type_first(T, self, f, path) ==
    IF ~IsDir(path.dentry) THEN Ret(T, "ENOTDIR", None)
    ELSE IF path.mntnode # self THEN Ret(T, "EINVAL", None)
    ELSE LET key == Key(path.dentry)
             T1 == new(T, f, path.dentry, path.mntnode)
             child_mount == T1.alloc
         IN  Ret([T1 EXCEPT !.children[self] = MapInsert(@, key, child_mount)],
                 "OK", child_mount)

mount_insert_first(T, self, f, path) ==
    IF path.mntnode # self THEN Ret(T, "EINVAL", None)
    ELSE LET key == Key(path.dentry)
             T1 == new(T, f, path.dentry, path.mntnode)
             child_mount == T1.alloc
             T2 == [T1 EXCEPT !.children[self] = MapInsert(@, key, child_mount)]
         IN  IF ~IsDir(path.dentry) THEN Ret(T2, "ENOTDIR", None)
             ELSE Ret(T2, "OK", child_mount)

\* MountNode::mount
mount(T, self, f, path) ==
    IF path.mntnode # self THEN Ret(T, "EINVAL", None)
    ELSE IF ~IsDir(path.dentry) THEN Ret(T, "ENOTDIR", None)
    ELSE LET key == Key(path.dentry)
             T1 == new(T, f, path.dentry, path.mntnode)
             child_mount == T1.alloc
         IN  Ret([T1 EXCEPT !.children[self] = MapInsert(@, key, child_mount)],
                 "OK", child_mount)

Mount(self, f, path) ==
    LET r == mount(Cur, self, f, path) IN
    /\ Commit(r.T)
    /\ last' = Result("mount", self, path, NoPath, {}, r.res, r.node, <<>>)

\* A variant of umount that clears the children map of the node.
umount_all(T, self, path) ==
    IF path.mntnode # self THEN Ret(T, "EINVAL", None)
    ELSE LET key == Key(path.dentry) IN
         IF key \notin DOMAIN T.children[self] THEN Ret(T, "ENOENT", None)
         ELSE Ret([T EXCEPT !.children[self] = EmptyMap],
                  "OK", T.children[self][key])

\* MountNode::umount
umount(T, self, path) ==
    IF path.mntnode # self THEN Ret(T, "EINVAL", None)
    ELSE LET key == Key(path.dentry) IN
         IF key \notin DOMAIN T.children[self] THEN Ret(T, "ENOENT", None)
         ELSE Ret([T EXCEPT !.children[self] = MapRemove(@, key)],
                  "OK", T.children[self][key])

Umount(self, path) ==
    LET r == umount(Cur, self, path) IN
    /\ Commit(r.T)
    /\ last' = Result("umount", self, path, NoPath, {}, r.res, r.node, <<>>)

----------------------------------------------------------------------------
\* MountNode::sync.  failing is the set of filesystems whose sync() returns
\* an error; held is the set of nodes whose children lock the caller holds:
\* locking one of them again never returns.  The result is the sequence of
\* nodes whose fs.sync() was called, the outcome, and the node whose
\* filesystem returned the error.

RECURSIVE sync(_, _, _, _), sync_children(_, _, _, _, _)

\* A variant of sync that flushes the node's own filesystem before its
\* children.
sync_self_first(T, n, failing, held) ==
    IF n \in held
    THEN [log |-> <<>>, res |-> "hang", at |-> None]
    ELSE IF T.fs[n] \in failing
    THEN [log |-> <<n>>, res |-> "EIO", at |-> n]
    ELSE LET c == sync_children(T, Values(T.children[n]), 1, failing, held \cup {n}) IN
         [c EXCEPT !.log = <<n>> \o @]

sync(T, n, failing, held) ==
    IF n \in held
    THEN [log |-> <<>>, res |-> "hang", at |-> None]
    ELSE LET c == sync_children(T, Values(T.children[n]), 1, failing, held \cup {n}) IN
         IF c.res # "OK" THEN c
         ELSE IF T.fs[n] \in failing
         THEN [log |-> Append(c.log, n), res |-> "EIO", at |-> n]
         ELSE [log |-> Append(c.log, n), res |-> "OK", at |-> None]

\* A variant of the loop that goes on to the next child after a child's
\* sync has failed, and returns the first error at the end.
sync_children_all(T, vals, i, failing, held) ==
    IF i > Len(vals)
    THEN [log |-> <<>>, res |-> "OK", at |-> None]
    ELSE LET r == sync(T, vals[i], failing, held)
             rest == sync_children(T, vals, i + 1, failing, held)
         IN  IF r.res = "hang" THEN r
             ELSE IF r.res # "OK" THEN [r EXCEPT !.log = @ \o rest.log]
             ELSE [rest EXCEPT !.log = r.log \o @]

\* The for loop of sync over children.values(), from the i-th child on.
sync_children(T, vals, i, failing, held) ==
    IF i > Len(vals)
    THEN [log |-> <<>>, res |-> "OK", at |-> None]
    ELSE LET r == sync(T, vals[i], failing, held) IN
         IF r.res # "OK" THEN r
         ELSE LET rest == sync_children(T, vals, i + 1, failing, held) IN
              [rest EXCEPT !.log = r.log \o @]

Sync(n, failing) ==
    LET r == sync(Cur, n, failing, {}) IN
    /\ UNCHANGED TreeVars
    /\ last' = Result("sync", n, NoPath, NoPath, failing, r.res, r.at, r.log)

----------------------------------------------------------------------------
\* A variant of clone_mnt that keeps the root dentry of mount_node.
clone_mnt_own_root(T, rd, mount_node, parent_mount) ==
    LET id == T.alloc + 1 IN
    [T EXCEPT !.alloc = id,
              !.fs[id] = T.fs[mount_node],
              !.root_dentry[id] = T.root_dentry[mount_node],
              !.mountpoint_dentry[id] = T.mountpoint_dentry[mount_node],
              !.parent[id] = parent_mount,
              !.children[id] = EmptyMap]

\* MountNode::clone_mnt: a node with the given root dentry, the filesystem
\* and the mountpoint dentry of mount_node, and the given parent.
clone_mnt(T, rd, mount_node, parent_mount) ==
    LET id == T.alloc + 1 IN
    [T EXCEPT !.alloc = id,
              !.fs[id] = T.fs[mount_node],
              !.root_dentry[id] = rd,
              !.mountpoint_dentry[id] = T.mountpoint_dentry[mount_node],
              !.parent[id] = parent_mount,
              !.children[id] = EmptyMap]

\* MountNode::copy_tree.  W is the state of the walk: the tree, the two
\* stacks, the clone of the root, and res: "OK" while the walk runs, "panic"
\* when the unwrap of a child's mountpoint dentry fails, "bound" when the
\* walk needs more than cap nodes.
RECURSIVE copy_children(_, _, _, _, _), copy_loop(_, _)

\* The for loop over children.values() of the node popped from stack, from
\* the i-th child on; par is the clone popped from new_stack.
copy_children(W, vals, i, par, cap) ==
    IF i > Len(vals) THEN W
    ELSE IF W.T.alloc >= cap THEN [W EXCEPT !.res = "bound"]
    ELSE LET child == vals[i]
             T1 == clone_mnt(W.T, W.T.root_dentry[child], child, par)
             new_child_mount_node == T1.alloc
         IN  IF T1.mountpoint_dentry[new_child_mount_node] = NoDentry
             THEN [W EXCEPT !.res = "panic"]
             ELSE LET key == Key(T1.mountpoint_dentry[new_child_mount_node])
                      T2 == [T1 EXCEPT !.children[par] =
                                           MapInsert(@, key, new_child_mount_node)]
                  IN  copy_children([W EXCEPT !.T = T2,
                                              !.stack = Append(@, child),
                                              !.new_stack = Append(@, new_child_mount_node)],
                                    vals, i + 1, par, cap)

\* A variant of the while loop that takes the clone from the bottom of
\* new_stack while it pops the node from the top of stack.
copy_loop_unpaired(W, cap) ==
    IF W.res # "OK" \/ W.stack = <<>> THEN W
    ELSE LET current_mount_node == W.stack[Len(W.stack)]
             par == W.new_stack[1]
             W1 == [W EXCEPT !.stack = SubSeq(@, 1, Len(@) - 1),
                             !.new_stack = SubSeq(@, 2, Len(@))]
         IN  copy_loop(copy_children(W1, Values(W.T.children[current_mount_node]),
                                     1, par, cap), cap)

\* The while loop: pop both stacks, clone the children of the popped node.
copy_loop(W, cap) ==
    IF W.res # "OK" \/ W.stack = <<>> THEN W
    ELSE LET current_mount_node == W.stack[Len(W.stack)]
             par == W.new_stack[Len(W.new_stack)]
             W1 == [W EXCEPT !.stack = SubSeq(@, 1, Len(@) - 1),
                             !.new_stack = SubSeq(@, 1, Len(@) - 1)]
         IN  copy_loop(copy_children(W1, Values(W.T.children[current_mount_node]),
                                     1, par, cap), cap)

copy_tree(T, old_mount_node, old_root_dentry, cap) ==
    LET T1 == clone_mnt(T, old_root_dentry, old_mount_node, None)
        new_mount_node == T1.alloc
        W == copy_loop([T |-> T1, stack |-> <<old_mount_node>>,
                        new_stack |-> <<new_mount_node>>, res |-> "OK"], cap)
    IN  IF W.res = "OK" THEN Ret(W.T, "OK", new_mount_node)
        ELSE Ret(T, W.res, None)

\* The nodes reachable from the nodes of S through children maps.
RECURSIVE ReachFrom(_, _, _)
ReachFrom(ch, S, k) ==
    IF k = 0 THEN S
    ELSE ReachFrom(ch, S \cup UNION {MapValues(ch[m]) : m \in S}, k - 1)

\* The subtree of n: n and the nodes below it.
Reach(ch, n) == ReachFrom(ch, {n}, MaxSlots)

\* The nodes below n.
Below(ch, n) == ReachFrom(ch, MapValues(ch[n]), MaxSlots)

\* The subtree of n holds a cycle of children maps.
OnCycle(ch, n) == \E m \in Reach(ch, n) : m \in Below(ch, m)

\* copy_tree called on its own (MntNamespace::copy_mnt_ns, or a caller that
\* has not attached the clone yet).  The walk of a subtree that holds a cycle
\* never ends; a walk that needs more than cap nodes is beyond the bound.
CopyTree(src, cap) ==
    LET r == copy_tree(Cur, src.mntnode, src.dentry, cap) IN
    /\ alloc < cap
    /\ r.res = "bound" => OnCycle(children, src.mntnode)
    /\ Commit(r.T)
    /\ last' = Result("copy_tree", src.mntnode, NoPath, src, {},
                      IF r.res = "bound" THEN "hang" ELSE r.res, r.node, <<>>)

----------------------------------------------------------------------------
\* MountNode::attach_mnt
attach_mnt(T, new_mount_node, new_path) ==
    LET parent_mount_node == new_path.mntnode
        mountpoint == new_path.dentry
        key == Key(mountpoint)
    IN  [T EXCEPT !.children[parent_mount_node] = MapInsert(@, key, new_mount_node),
                  !.mountpoint_dentry[new_mount_node] = mountpoint,
                  !.parent[new_mount_node] = parent_mount_node]

\* MountNode::unattch_mnt: the node leaves the children map of its current
\* parent, under the key of its current mountpoint dentry.
unattch_mnt(T, mount_node) ==
    LET p == T.parent[mount_node]
        mp == T.mountpoint_dentry[mount_node]
    IN  IF p = None \/ mp = NoDentry THEN T
        ELSE [T EXCEPT !.children[p] = MapRemove(@, Key(mp))]

\* A bind that attaches the source node itself instead of a copy of it.
do_loopback_no_copy(T, old_path, new_path, cap) ==
    IF old_path = NoPath THEN Ret(T, "ENOENT", None)
    ELSE Ret(attach_mnt(T, old_path.mntnode, new_path), "OK", old_path.mntnode)

\* do_loopback (MS_BIND).  old_path is the path old_name resolves to, NoPath
\* when old_name is empty or does not resolve.
do_loopback(T, old_path, new_path, cap) ==
    IF old_path = NoPath THEN Ret(T, "ENOENT", None)
    ELSE LET c == copy_tree(T, old_path.mntnode, old_path.dentry, cap) IN
         IF c.res # "OK" THEN c
         ELSE Ret(attach_mnt(c.T, c.node, new_path), "OK", c.node)

DoLoopback(src, new_path, cap) ==
    LET r == do_loopback(Cur, src, new_path, cap) IN
    /\ alloc < cap \/ src = NoPath
    /\ r.res = "bound" => OnCycle(children, src.mntnode)
    /\ Commit(r.T)
    /\ last' = Result("loopback", None, new_path, src, {},
                      IF r.res = "bound" THEN "hang" ELSE r.res, r.node, <<>>)

\* do_move_mount_old (MS_MOVE)
do_move_mount_old(T, old_path, new_path) ==
    IF old_path = NoPath THEN Ret(T, "ENOENT", None)
    ELSE IF ~is_root_of_mount(old_path.dentry) /\ T.parent[old_path.mntnode] = None
    THEN Ret(T, "EINVAL", None)
    ELSE Ret(attach_mnt(unattch_mnt(T, old_path.mntnode), old_path.mntnode, new_path),
             "OK", old_path.mntnode)

DoMoveMountOld(src, new_path) ==
    LET r == do_move_mount_old(Cur, src, new_path) IN
    /\ Commit(r.T)
    /\ last' = Result("move", None, new_path, src, {}, r.res, r.node, <<>>)

----------------------------------------------------------------------------
\* The children locks a walk holds.

SetMax(S) == CHOOSE k \in S : \A j \in S : j <= k

\* MountNode::sync: the largest number of children locks the thread holds at
\* once while it syncs n, entered with the locks of held.  The guard of
\* self.children is taken before the loop over the children and dropped
\* after it, so it is held across every child.sync().
RECURSIVE sync_locks(_, _, _)
sync_locks(T, n, held) ==
    IF n \in held THEN Cardinality(held)
    ELSE SetMax({Cardinality(held \cup {n})} \cup
                {sync_locks(T, c, held \cup {n}) : c \in MapValues(T.children[n])})

\* MountNode::copy_tree: the guard of current_mount_node.children is held
\* over the for loop, and each pass of the loop locks parent.children, the
\* map of the clone, for the insert.
copy_tree_locks(T, old_mount_node) ==
    IF \E m \in Reach(T.children, old_mount_node) : T.children[m] # EmptyMap
    THEN 2 ELSE 1

\* MountNode::process_move: the guard of current_mount_node.children is
\* taken after the comparisons and dropped at the end of each pass.
process_move_locks(T, mount_node) == 1

----------------------------------------------------------------------------
\* The calls of a run.

\* The filesystem a fresh mount opens (do_new_mount: Ext2::open): a new
\* handle, shared by no node yet.
FreshFs == alloc + 1

\* The filesystems in use.
FsInUse == {fs[n] : n \in 1..alloc}

\* The paths the resolver hands to the mount syscalls: inside the nodes of
\* the boot namespace's tree.
Lookup == UNION {PathsOf(root_dentry, n) : n \in Reach(children, RootNode)}

\* The nodes a caller addresses with a path: the node of the path (as
\* Path::mount and Path::umount do), or the root of the boot namespace.
Callers(path) == {path.mntnode, RootNode}

\* The previous call changed the tree (or the system has just booted).  A
\* failed call and a sync leave the tree as it was, so every call that can
\* follow one of them can be issued in its place: the runs below issue the
\* next call after a call that changed the tree, and reach the same states.
Returned == last.res = "OK" /\ last.op # "sync"

MountCall(cap) ==
    /\ Returned
    /\ \E path \in AllPaths : \E self \in Callers(path), f \in {FreshFs} :
         /\ mount(Cur, self, f, path).T.alloc <= cap
         /\ Mount(self, f, path)
         /\ UNCHANGED <<moves, OtherVars>>

UmountCall ==
    /\ Returned
    /\ \E path \in AllPaths : \E self \in Callers(path) :
         Umount(self, path) /\ UNCHANGED <<moves, OtherVars>>

SyncCall ==
    /\ Returned
    /\ \E n \in 1..alloc, failing \in SUBSET FsInUse : Sync(n, failing) /\ UNCHANGED <<moves, OtherVars>>

CopyTreeCall(cap) ==
    /\ Returned
    /\ \E src \in AllPaths : CopyTree(src, cap) /\ UNCHANGED <<moves, OtherVars>>

LoopbackCall(cap) ==
    /\ Returned
    /\ \E src \in Lookup \cup {NoPath}, new_path \in Lookup :
         DoLoopback(src, new_path, cap) /\ UNCHANGED <<moves, OtherVars>>

MoveCall ==
    /\ Returned
    /\ moves < MaxMoves
    /\ \E src \in Lookup \cup {NoPath}, new_path \in Lookup :
         /\ DoMoveMountOld(src, new_path)
         /\ moves' = IF last'.res = "OK" THEN moves + 1 ELSE moves
         /\ UNCHANGED OtherVars

Next ==
    \/ MountCall(MaxNodes)
    \/ UmountCall
    \/ SyncCall
    \/ CopyTreeCall(MaxNodes)
    \/ LoopbackCall(MaxNodes)
    \/ MoveCall

Spec == Init /\ [][Next]_vars

\* Runs that build trees and clone them.
NextCopy ==
    \/ MountCall(MaxCopyNodes)
    \/ UmountCall
    \/ CopyTreeCall(MaxCopyNodes)

SpecCopy == Init /\ [][NextCopy]_vars

\* The trees that up to k more mounts build from T, each mount at a
\* directory of a node of the tree with a fresh filesystem.
RECURSIVE BuildTrees(_, _)
BuildTrees(T, k) ==
    IF k = 0 THEN {T}
    ELSE {T} \cup
         UNION {BuildTrees(mount(T, p.mntnode, T.alloc + 1, p).T, k - 1) :
                    p \in {q \in UNION {PathsOf(T.root_dentry, n) : n \in 1..T.alloc} :
                               IsDir(q.dentry)}}

\* The state after boot and up to MaxPairTree - 1 mounts.
InitPair ==
    /\ \E T \in BuildTrees(new(Blank, RootFs, NoDentry, None), MaxPairTree - 1) :
           Install(T)
    /\ moves = 0
    /\ last = Result("boot", None, NoPath, NoPath, {}, "OK", None, <<>>)
    /\ Quiet

\* Runs that copy the trees built by mounts.
NextPair == CopyTreeCall(MaxPairNodes)

SpecPair == InitPair /\ [][NextPair]_vars

\* Runs that build a tree and bind parts of it: at most MaxMoves binds
\* succeed in a run.
BindCall(cap) ==
    /\ Returned
    /\ moves < MaxMoves
    /\ \E src \in Lookup \cup {NoPath}, new_path \in Lookup :
         /\ DoLoopback(src, new_path, cap)
         /\ moves' = IF last'.res = "OK" THEN moves + 1 ELSE moves
         /\ UNCHANGED OtherVars

NextBind ==
    \/ MountCall(MaxNodes)
    \/ UmountCall
    \/ BindCall(MaxCopyNodes)

SpecBind == Init /\ [][NextBind]_vars

----------------------------------------------------------------------------
\* Mount namespaces.

\* MountNode::process_move: the walk of the new tree from the top of the
\* stack; pr is the fs state of the current process.  Arc::ptr_eq on root
\* dentries is equality of dentries.
RECURSIVE process_move_loop(_, _, _)
process_move_loop(T, stack, pr) ==
    IF stack = <<>> THEN pr
    ELSE LET current_mount_node == stack[Len(stack)]
             rest == SubSeq(stack, 1, Len(stack) - 1)
             pr1 == IF T.root_dentry[current_mount_node] = T.root_dentry[pr.root.mntnode]
                    THEN [pr EXCEPT !.root = [mntnode |-> current_mount_node,
                                              dentry |-> pr.root.dentry]]
                    ELSE pr
             pr2 == IF T.root_dentry[current_mount_node] = T.root_dentry[pr1.cwd.mntnode]
                    THEN [pr1 EXCEPT !.cwd = [mntnode |-> current_mount_node,
                                              dentry |-> pr1.cwd.dentry]]
                    ELSE pr1
         IN  process_move_loop(T, rest \o Values(T.children[current_mount_node]), pr2)

process_move(T, mount_node, pr) == process_move_loop(T, <<mount_node>>, pr)

\* MntNamespace::copy_mnt_ns: the copy of the tree of the old namespace,
\* from the root dentry of its root.
copy_mnt_ns(T, old_root, cap) == copy_tree(T, old_root, T.root_dentry[old_root], cap)

\* do_unshare with the mount-namespace bit: the namespace of the process is
\* cloned, root and cwd of the process are moved to the clone, and the clone
\* becomes the namespace of the process.
do_unshare(T, pr, cap) ==
    LET c == copy_mnt_ns(T, pr.ns, cap) IN
    IF c.res # "OK" THEN [T |-> T, res |-> c.res, node |-> None, proc |-> pr]
    ELSE [T |-> c.T, res |-> "OK", node |-> c.node,
          proc |-> [process_move(c.T, c.node, pr) EXCEPT !.ns = c.node]]

\* sys_unshare by a process of the boot namespace.
UnshareCall(cap) ==
    LET r == do_unshare(Cur, proc, cap) IN
    /\ Returned
    /\ proc.ns = RootNode
    /\ alloc < cap
    /\ r.res = "OK"
    /\ Commit(r.T)
    /\ proc' = r.proc
    /\ last' = Result("unshare", proc.ns, NoPath, NoPath, {}, r.res, r.node, <<>>)
    /\ UNCHANGED <<moves, lock, mv, walker, NsVars, sys, twin>>

\* chdir and chroot of the process, to a directory its namespace resolves.
ChdirCall ==
    /\ proc.ns = RootNode
    /\ \E p \in Lookup :
         /\ IsDir(p.dentry)
         /\ proc' = [proc EXCEPT !.cwd = p]
    /\ UNCHANGED <<TreeVars, moves, last, lock, mv, walker, NsVars, sys, twin>>

ChrootCall ==
    /\ proc.ns = RootNode
    /\ \E p \in Lookup :
         /\ IsDir(p.dentry)
         /\ proc' = [proc EXCEPT !.root = p]
    /\ UNCHANGED <<TreeVars, moves, last, lock, mv, walker, NsVars, sys, twin>>

\* Mounts by any process, before and after the unshare.
NsMountCall == MountCall(IF proc.ns = RootNode THEN MaxNodes ELSE MaxCopyNodes)

NextNs ==
    \/ NsMountCall
    \/ UmountCall
    \/ BindCall(MaxNodes)
    \/ ChdirCall
    \/ ChrootCall
    \/ UnshareCall(MaxCopyNodes)

SpecNs == Init /\ [][NextNs]_vars

----------------------------------------------------------------------------
\* The system calls.  A flags word is the set of the positions of its bits
\* that are set.

\* MountFlags: the positions of the bits the dispatch of sys_mount tests.
MS_REMOUNT == 5
MS_BIND == 12
MS_MOVE == 13
MS_UNBINDABLE == 17
MS_PRIVATE == 18
MS_SLAVE == 19
MS_SHARED == 20

\* The bits MountFlags defines: 0 to 22 without 9.
MountFlagBits == (0..22) \ {9}

\* UmountFlags
MNT_FORCE == 0
MNT_DETACH == 1
MNT_EXPIRE == 2
UMOUNT_NOFOLLOW == 3
UmountFlagBits == {MNT_FORCE, MNT_DETACH, MNT_EXPIRE, UMOUNT_NOFOLLOW}

\* flags as u32
as_u32(flags) == flags \cap (0..31)

\* bitflags from_bits_truncate: the bits the type does not define are dropped.
from_bits_truncate(bits, defined) == bits \cap defined

\* The flags words the calls are made with: the bits the dispatch tests, a
\* bit no flag type defines, and a bit above the low 32.
MountFlagInputs ==
    SUBSET {MS_REMOUNT, MS_BIND, MS_MOVE, MS_UNBINDABLE, MS_PRIVATE, MS_SLAVE,
            MS_SHARED, 9, 32}
UmountFlagInputs == SUBSET (UmountFlagBits \cup {4, 32})

\* The trees the system calls are run on hold at most MaxSysNodes nodes, and
\* a run ends with at most MaxCalls system calls whose flags are recorded.
MaxSysNodes == 2
MaxCalls == 1

\* A dispatch that tests MS_BIND before MS_REMOUNT with MS_BIND.
select_flow_bind_first(mount_flags) ==
    IF MS_BIND \in mount_flags THEN "do_loopback"
    ELSE IF MS_REMOUNT \in mount_flags THEN "do_remount"
    ELSE IF {MS_SHARED, MS_PRIVATE, MS_SLAVE, MS_UNBINDABLE} \cap mount_flags # {}
    THEN "do_change_type"
    ELSE IF MS_MOVE \in mount_flags THEN "do_move_mount_old"
    ELSE "do_new_mount"

\* The if / else-if chain of sys_mount: the flow that is called.
select_flow(mount_flags) ==
    IF MS_REMOUNT \in mount_flags /\ MS_BIND \in mount_flags THEN "do_reconfigure_mnt"
    ELSE IF MS_REMOUNT \in mount_flags THEN "do_remount"
    ELSE IF MS_BIND \in mount_flags THEN "do_loopback"
    ELSE IF \/ MS_SHARED \in mount_flags
            \/ MS_PRIVATE \in mount_flags
            \/ MS_SLAVE \in mount_flags
            \/ MS_UNBINDABLE \in mount_flags
    THEN "do_change_type"
    ELSE IF MS_MOVE \in mount_flags THEN "do_move_mount_old"
    ELSE "do_new_mount"

\* do_new_mount: a filesystem is opened and mounted at the target.
do_new_mount(T, f, target_path) == mount(T, target_path.mntnode, f, target_path)

\* sys_mount.  old_path is what the device name resolves to and target_path
\* what the directory name resolves to, NoPath when it is empty or does not
\* resolve.  The result of the flow is dropped: the call returns 0 once the
\* target is resolved.
sys_mount(T, flags, old_path, target_path, f, cap) ==
    IF target_path = NoPath
    THEN [T |-> T, res |-> "ENOENT", node |-> None, flow |-> "none", ret |-> "ENOENT"]
    ELSE LET mount_flags == from_bits_truncate(as_u32(flags), MountFlagBits)
             flow == select_flow(mount_flags)
             r == CASE flow = "do_loopback" -> do_loopback(T, old_path, target_path, cap)
                    [] flow = "do_move_mount_old" -> do_move_mount_old(T, old_path, target_path)
                    [] flow = "do_new_mount" -> do_new_mount(T, f, target_path)
                    [] OTHER -> Ret(T, "OK", None)
         IN  [T |-> r.T, res |-> r.res, node |-> r.node, flow |-> flow, ret |-> "OK"]

\* UmountFlags::check_unsupported_flags
check_unsupported_flags(umount_flags) ==
    LET supported_flags == {MNT_FORCE, MNT_DETACH, MNT_EXPIRE, UMOUNT_NOFOLLOW}
        unsupported_flags == umount_flags \ supported_flags
    IN  IF unsupported_flags # {} THEN "EINVAL" ELSE "OK"

\* sys_umount.  The result of check_unsupported_flags is dropped; the error
\* of the umount is returned.
sys_umount(T, flags, self, path) ==
    LET umount_flags == from_bits_truncate(as_u32(flags), UmountFlagBits)
        checked == check_unsupported_flags(umount_flags)
    IN  IF path = NoPath THEN Ret(T, "ENOENT", None)
        ELSE umount(T, self, path)

\* The names the calls are recorded under.
OpOf(flow) ==
    CASE flow = "do_loopback" -> "loopback"
      [] flow = "do_move_mount_old" -> "move"
      [] flow = "do_new_mount" -> "mount"
      [] OTHER -> flow

SysFrame == UNCHANGED <<lock, mv, walker, proc, NsVars, twin>>

SysMountCall(cap) ==
    /\ Returned
    /\ sys.n < MaxCalls
    /\ \E flags \in MountFlagInputs :
       \E old_path \in Lookup \cup {NoPath}, target_path \in Lookup \cup {NoPath} :
         LET r == sys_mount(Cur, flags, old_path, target_path, FreshFs, cap) IN
         /\ r.T.alloc <= cap
         /\ r.res # "bound"
         /\ r.flow = "do_move_mount_old" => moves < MaxMoves
         /\ Commit(r.T)
         /\ moves' = IF r.flow = "do_move_mount_old" /\ r.res = "OK"
                     THEN moves + 1 ELSE moves
         /\ last' = Result(OpOf(r.flow),
                           IF r.flow = "do_new_mount" THEN target_path.mntnode ELSE None,
                           target_path, old_path, {}, r.res, r.node, <<>>)
         /\ sys' = [n |-> sys.n + 1, call |-> "mount", flags |-> flags,
                    target |-> target_path, flow |-> r.flow, ret |-> r.ret]
    /\ SysFrame

SysUmountCall ==
    /\ Returned
    /\ sys.n < MaxCalls
    /\ \E flags \in UmountFlagInputs, path \in Lookup \cup {NoPath} :
       \E self \in IF path = NoPath THEN {RootNode} ELSE Callers(path) :
         LET r == sys_umount(Cur, flags, self, path) IN
         /\ Commit(r.T)
         /\ last' = Result("umount", self, path, NoPath, {}, r.res, r.node, <<>>)
         /\ sys' = [n |-> sys.n + 1, call |-> "umount", flags |-> flags,
                    target |-> path, flow |-> "umount", ret |-> r.res]
    /\ UNCHANGED moves
    /\ SysFrame

\* The calls that build the tree before the recorded system calls: fresh
\* mounts and umounts.
BuildMountCall ==
    /\ sys.n = 0
    /\ MountCall(MaxSysNodes)

BuildUmountCall ==
    /\ sys.n = 0
    /\ UmountCall

NextSys ==
    \/ BuildMountCall
    \/ BuildUmountCall
    \/ SysMountCall(MaxSysNodes)
    \/ SysUmountCall

SpecSys == Init /\ [][NextSys]_vars

----------------------------------------------------------------------------
\* The namespace proxy of a process: Arc<Mutex<Nsproxy>>.

\* A lock that is never taken.
mutex_lock_none(p, t) == [ok |-> TRUE, p |-> p]

\* Mutex::lock on the proxy by thread t: ok when the mutex is free.
mutex_lock(p, t) == [ok |-> p.lock = "free", p |-> [p EXCEPT !.lock = t]]

\* The guard is dropped.
mutex_unlock(p, t) == IF p.lock = t THEN [p EXCEPT !.lock = "free"] ELSE p

\* The tree, the calls and the process are left alone.
NsFrame == UNCHANGED <<TreeVars, moves, last, lock, mv, walker, proc, sys, twin>>

\* Nsproxy::set_namespaces(&mut self, nsproxy): self is reached through the
\* guard of the proxy's mutex; then one assignment per field.
SetLock ==
    LET l == mutex_lock(nsproxy, "setter") IN
    /\ setter.pc = "idle"
    /\ l.ok
    /\ \E m, n \in NsHandles :
         setter' = [pc |-> "mnt_ns", new |-> <<m, n>>]
    /\ nsproxy' = l.p
    /\ UNCHANGED getter
    /\ NsFrame

SetMntNs ==
    /\ setter.pc = "mnt_ns"
    /\ nsproxy' = [nsproxy EXCEPT !.mnt_ns = setter.new[1]]
    /\ setter' = [setter EXCEPT !.pc = "net_ns"]
    /\ UNCHANGED getter
    /\ NsFrame

SetNetNs ==
    /\ setter.pc = "net_ns"
    /\ nsproxy' = [nsproxy EXCEPT !.net_ns = setter.new[2],
                                  !.held = @ \cup {setter.new}]
    /\ setter' = [setter EXCEPT !.pc = "unlock"]
    /\ UNCHANGED getter
    /\ NsFrame

SetUnlock ==
    /\ setter.pc = "unlock"
    /\ nsproxy' = mutex_unlock(nsproxy, "setter")
    /\ setter' = [setter EXCEPT !.pc = "idle"]
    /\ UNCHANGED getter
    /\ NsFrame

\* A reader of the proxy (get_iface_to_bind): current.nsproxy().lock(), the
\* accessors, and the guard dropped at the end.
GetLock ==
    LET l == mutex_lock(nsproxy, "getter") IN
    /\ getter.pc \in {"idle", "done"}
    /\ l.ok
    /\ nsproxy' = l.p
    /\ getter' = [getter EXCEPT !.pc = "mnt_ns"]
    /\ UNCHANGED setter
    /\ NsFrame

GetMntNs ==
    /\ getter.pc = "mnt_ns"
    /\ getter' = [getter EXCEPT !.pc = "net_ns", !.mnt_ns = nsproxy.mnt_ns]
    /\ UNCHANGED <<nsproxy, setter>>
    /\ NsFrame

GetNetNs ==
    /\ getter.pc = "net_ns"
    /\ getter' = [getter EXCEPT !.pc = "unlock", !.net_ns = nsproxy.net_ns]
    /\ UNCHANGED <<nsproxy, setter>>
    /\ NsFrame

GetUnlock ==
    /\ getter.pc = "unlock"
    /\ nsproxy' = mutex_unlock(nsproxy, "getter")
    /\ getter' = [getter EXCEPT !.pc = "done"]
    /\ UNCHANGED setter
    /\ NsFrame

NextProxy ==
    \/ SetLock
    \/ SetMntNs
    \/ SetNetNs
    \/ SetUnlock
    \/ GetLock
    \/ GetMntNs
    \/ GetNetNs
    \/ GetUnlock

SpecProxy == Init /\ [][NextProxy]_vars

----------------------------------------------------------------------------
\* Two threads, each inside one call that succeeds when it runs alone:
\* MountNode::mount, MountNode::umount, or a bind (do_loopback), on different
\* entries or different nodes.

\* The entry a call works on: the node and the key.
EntryOf(op) == <<op.path.mntnode, Key(op.path.dentry)>>

ParOp(kind, path, f, src) ==
    [NoOp EXCEPT !.pc = "start", !.kind = kind, !.path = path, !.f = f, !.src = src]

\* The calls that succeed on the tree T: a mount at a directory, an umount
\* of an entry that holds a child, a bind of a subtree without a cycle.
ParCalls(T, f) ==
    {ParOp("mount", p, f, NoPath) : p \in {q \in Lookup : IsDir(q.dentry)}}
    \cup
    {ParOp("umount", p, None, NoPath) :
         p \in {q \in Lookup : Key(q.dentry) \in DOMAIN T.children[q.mntnode]}}
    \cup
    {ParOp("bind", pq[2], None, pq[1]) :
         pq \in {x \in Lookup \X Lookup : ~OnCycle(T.children, x[1].mntnode)}}

ParFrame == UNCHANGED <<moves, last, lock, mv, walker, proc, NsVars, sys>>

\* The record of the calls made before the two threads start is dropped.
ParStart == Result("twin", None, NoPath, NoPath, {}, "OK", None, <<>>)

ParBegin ==
    /\ Returned
    /\ twin.pc = "idle"
    /\ \E a \in ParCalls(Cur, alloc + 1), b \in ParCalls(Cur, alloc + 2) :
         /\ EntryOf(a) # EntryOf(b)
         /\ twin' = [pc |-> "run", th |-> <<a, b>>, T0 |-> Cur]
    /\ last' = ParStart
    /\ UNCHANGED <<TreeVars, moves, lock, mv, walker, proc, NsVars, sys>>

\* mount up to the insert: the checks have passed, the child is made.
ParNew(t) ==
    /\ twin.pc = "run"
    /\ twin.th[t].kind = "mount" /\ twin.th[t].pc = "start"
    /\ alloc < MaxParNodes
    /\ LET op == twin.th[t]
           T1 == new(Cur, op.f, op.path.dentry, op.path.mntnode)
       IN  /\ Commit(T1)
           /\ twin' = [twin EXCEPT !.th[t].pc = "insert", !.th[t].node = T1.alloc]
    /\ ParFrame

\* mount: self.children.lock().insert(key, child_mount), one statement under
\* the mutex.
ParInsert(t) ==
    /\ twin.pc = "run"
    /\ twin.th[t].kind = "mount" /\ twin.th[t].pc = "insert"
    /\ LET op == twin.th[t] IN
       children' = [children EXCEPT ![op.path.mntnode] =
                        MapInsert(@, Key(op.path.dentry), op.node)]
    /\ twin' = [twin EXCEPT !.th[t].pc = "done"]
    /\ UNCHANGED <<alloc, fs, root_dentry, mountpoint_dentry, parent>>
    /\ ParFrame

\* umount: the check of the arguments and the remove under the mutex.
ParRemove(t) ==
    /\ twin.pc = "run"
    /\ twin.th[t].kind = "umount" /\ twin.th[t].pc = "start"
    /\ LET op == twin.th[t]
           r == umount(Cur, op.path.mntnode, op.path)
       IN  /\ Commit(r.T)
           /\ twin' = [twin EXCEPT !.th[t].pc = IF r.res = "OK" THEN "done" ELSE r.res,
                                 !.th[t].node = r.node]
    /\ ParFrame

\* copy_tree up to the while loop: the clone of the root of the source and
\* the two stacks.
ParCloneRoot(t) ==
    /\ twin.pc = "run"
    /\ twin.th[t].kind = "bind" /\ twin.th[t].pc = "start"
    /\ alloc < MaxParNodes
    /\ LET op == twin.th[t]
           T1 == clone_mnt(Cur, op.src.dentry, op.src.mntnode, None)
       IN  /\ Commit(T1)
           /\ twin' = [twin EXCEPT !.th[t].pc = "walk",
                                 !.th[t].node = T1.alloc,
                                 !.th[t].stack = <<op.src.mntnode>>,
                                 !.th[t].new_stack = <<T1.alloc>>]
    /\ ParFrame

\* copy_tree, one turn of the while loop: the pops, and the for loop over
\* the children of the popped node with the mutex of its children map held.
ParCopyChildren(t) ==
    /\ twin.pc = "run"
    /\ twin.th[t].kind = "bind" /\ twin.th[t].pc = "walk"
    /\ twin.th[t].stack # <<>>
    /\ LET op == twin.th[t]
           current_mount_node == op.stack[Len(op.stack)]
           W1 == [T |-> Cur,
                  stack |-> SubSeq(op.stack, 1, Len(op.stack) - 1),
                  new_stack |-> SubSeq(op.new_stack, 1, Len(op.new_stack) - 1),
                  res |-> "OK"]
           W2 == copy_children(W1, Values(children[current_mount_node]), 1,
                               op.new_stack[Len(op.new_stack)], MaxParNodes)
       IN  /\ Commit(W2.T)
           /\ twin' = [twin EXCEPT !.th[t].pc = IF W2.res = "OK" THEN "walk" ELSE W2.res,
                                 !.th[t].stack = W2.stack,
                                 !.th[t].new_stack = W2.new_stack]
    /\ ParFrame

\* do_loopback after copy_tree has returned: attach_mnt of the clone, with
\* the mutex of the children map of the target node held.
ParAttach(t) ==
    /\ twin.pc = "run"
    /\ twin.th[t].kind = "bind" /\ twin.th[t].pc = "walk"
    /\ twin.th[t].stack = <<>>
    /\ Commit(attach_mnt(Cur, twin.th[t].node, twin.th[t].path))
    /\ twin' = [twin EXCEPT !.th[t].pc = "done"]
    /\ ParFrame

ParStep ==
    \E t \in {1, 2} :
        \/ ParNew(t)
        \/ ParInsert(t)
        \/ ParRemove(t)
        \/ ParCloneRoot(t)
        \/ ParCopyChildren(t)
        \/ ParAttach(t)

\* The tree is built by mounts and umounts before the threads start.
ParBuildCall ==
    /\ twin.pc = "idle"
    /\ \/ MountCall(MaxParTree)
       \/ UmountCall

NextPar ==
    \/ ParBuildCall
    \/ ParBegin
    \/ ParStep

SpecPar == Init /\ [][NextPar]_vars

----------------------------------------------------------------------------
\* Threads.  Two threads run do_move_mount_old step by step while a third
\* crosses a mountpoint: it finds a child with MountNode::get, then reads the
\* child's mountpoint dentry and parent.  Each step is what one lock
\* acquisition makes atomic.

\* The tree is built by mounts and umounts before the threads start.
AllIdle == \A t \in Movers : mv[t].pc = "idle"

RaceMount ==
    /\ AllIdle /\ walker.pc = "idle"
    /\ \E path \in Lookup :
         /\ mount(Cur, path.mntnode, FreshFs, path).res = "OK"
         /\ alloc < MaxNodes
         /\ Mount(path.mntnode, FreshFs, path)
    /\ UNCHANGED <<moves, OtherVars>>

\* do_move_mount_old up to its check of the source: both paths are resolved,
\* a source that fails the check ends the call; after the check the call
\* uses the node of the source only.  The threads are alike: they enter in
\* the order of their numbers.
MoveBegin(t) ==
    /\ mv[t].pc = "idle"
    /\ \A u \in Movers : u < t => mv[u].pc # "idle"
    /\ \E src \in Lookup, dst \in Lookup :
         mv' = [mv EXCEPT ![t] =
                   IF do_move_mount_old(Cur, src, dst).res = "OK"
                   THEN [pc |-> "unattch", node |-> src.mntnode, dst |-> dst]
                   ELSE [IdleMover EXCEPT !.pc = "done"]]
    /\ UNCHANGED <<TreeVars, moves, last, ProcVars, lock, walker>>

\* MountNode::unattch_mnt: under the children mutex of the current parent.
MoveUnattch(t) ==
    /\ mv[t].pc = "unattch"
    /\ LET node == mv[t].node
           p == parent[node]
       IN  /\ p # None => lock[p] = None
           /\ Commit(unattch_mnt(Cur, node))
    /\ mv' = [mv EXCEPT ![t].pc = "insert"]
    /\ UNCHANGED <<moves, last, ProcVars, lock, walker>>

\* attach_mnt: children.lock() of the destination's node, and the insert.
AttachInsert(t) ==
    /\ mv[t].pc = "insert"
    /\ LET p == mv[t].dst.mntnode
           node == mv[t].node
       IN  /\ lock[p] = None
           /\ lock' = [lock EXCEPT ![p] = t]
           /\ children' = [children EXCEPT ![p] =
                               MapInsert(@, Key(mv[t].dst.dentry), node)]
    /\ mv' = [mv EXCEPT ![t].pc = "set_mountpoint"]
    /\ UNCHANGED <<alloc, fs, root_dentry, mountpoint_dentry, parent, moves, last, ProcVars, walker>>

\* attach_mnt: set_mountpoint_dentry, under the mountpoint's own lock.
AttachSetMountpoint(t) ==
    /\ mv[t].pc = "set_mountpoint"
    /\ mountpoint_dentry' =
           [mountpoint_dentry EXCEPT ![mv[t].node] = mv[t].dst.dentry]
    /\ mv' = [mv EXCEPT ![t].pc = "set_parent"]
    /\ UNCHANGED <<alloc, fs, root_dentry, parent, children, moves, last, ProcVars, lock, walker>>

\* attach_mnt: set_parent, under the parent's own lock.
AttachSetParent(t) ==
    /\ mv[t].pc = "set_parent"
    /\ parent' = [parent EXCEPT ![mv[t].node] = mv[t].dst.mntnode]
    /\ mv' = [mv EXCEPT ![t].pc = "unlock"]
    /\ UNCHANGED <<alloc, fs, root_dentry, mountpoint_dentry, children, moves, last, ProcVars,
                   lock, walker>>

\* attach_mnt returns: the guard of the children mutex is dropped.
AttachUnlock(t) ==
    /\ mv[t].pc = "unlock"
    /\ lock' = [lock EXCEPT ![mv[t].dst.mntnode] = None]
    /\ mv' = [mv EXCEPT ![t].pc = "done"]
    /\ UNCHANGED <<TreeVars, moves, last, ProcVars, walker>>

\* MountNode::get on an entry with a mounted child; the reader keeps the
\* child, and what the child's fields were when it found it.
ReadGet ==
    /\ walker.pc = "idle"
    /\ \E p \in Reach(children, RootNode) : \E k \in DOMAIN children[p] :
         \E d \in Dentry :
           /\ Key(d) = k
           /\ lock[p] = None
           /\ walker' = [pc |-> "read_mountpoint",
                     at |-> [mntnode |-> p, dentry |-> d],
                     found |-> get(children, p, d),
                     snap_parent |-> parent[get(children, p, d)],
                     snap_mp |-> mountpoint_dentry[get(children, p, d)],
                     parent |-> None, mp |-> NoDentry]
    /\ UNCHANGED <<TreeVars, moves, last, ProcVars, lock, mv>>

\* MountNode::mountpoint_dentry of the child found.
ReadMountpoint ==
    /\ walker.pc = "read_mountpoint"
    /\ walker' = [walker EXCEPT !.pc = "read_parent", !.mp = mountpoint_dentry[walker.found]]
    /\ UNCHANGED <<TreeVars, moves, last, ProcVars, lock, mv>>

\* MountNode::parent of the child found.
ReadParent ==
    /\ walker.pc = "read_parent"
    /\ walker' = [walker EXCEPT !.pc = "done", !.parent = parent[walker.found]]
    /\ UNCHANGED <<TreeVars, moves, last, ProcVars, lock, mv>>

MoverStep ==
    \E t \in Movers :
        \/ MoveBegin(t)
        \/ MoveUnattch(t)
        \/ AttachInsert(t)
        \/ AttachSetMountpoint(t)
        \/ AttachSetParent(t)
        \/ AttachUnlock(t)

NextRace ==
    \/ RaceMount
    \/ MoverStep
    \/ ReadGet
    \/ ReadMountpoint
    \/ ReadParent

SpecRace == Init /\ [][NextRace]_vars

----------------------------------------------------------------------------
\* What the calls guarantee.

\* C1: after mount(N, fs, E) succeeds, get(N, E) is exactly the node the call
\* created and returned, and that node's parent is N and its mountpoint
\* dentry is E.
C1_MountRegistersChild ==
    (last.op = "mount" /\ last.res = "OK") =>
        /\ last.node = alloc
        /\ get(children, last.self, last.path.dentry) = last.node
        /\ parent[last.node] = last.self
        /\ mountpoint_dentry[last.node] = last.path.dentry

\* A mount below a node other than the boot root has succeeded.
C1_Witness ==
    /\ last.op = "mount" /\ last.res = "OK"
    /\ last.self # RootNode
    /\ last.path.dentry.name # 0

\* C2 (as stated): a successful mount at an entry E of N that already has a
\* mounted child replaces the mapping: get(N, E) is the second child, the
\* first child is no longer below N, and the first child's own children map
\* and filesystem are what they were.
C2_ReplaceKeepsFirstChild ==
    [][(last'.op = "mount" /\ last'.res = "OK"
        /\ get(children, last'.self, last'.path.dentry) # None) =>
           LET N == last'.self
               first == get(children, N, last'.path.dentry)
           IN  /\ get(children', N, last'.path.dentry) = last'.node
               /\ last'.node # first
               /\ first \notin Below(children', N)
               /\ children'[first] = children[first]
               /\ fs'[first] = fs[first]]_vars

\* C3: mount fails with EINVAL whenever the mountpoint's node is not self,
\* also when the entry is not a directory; otherwise it fails with ENOTDIR
\* whenever the entry is not a directory; a failed mount creates and inserts
\* nothing.
C3_MountValidation ==
    [][last'.op = "mount" =>
           /\ last'.path.mntnode # last'.self => last'.res = "EINVAL"
           /\ (last'.path.mntnode = last'.self /\ ~IsDir(last'.path.dentry))
                  => last'.res = "ENOTDIR"
           /\ last'.res # "OK" => UNCHANGED TreeVars]_vars

\* A mount failed with EINVAL on an entry that is neither in self nor a
\* directory.
C3_Witness ==
    /\ last.op = "mount" /\ last.res = "EINVAL"
    /\ last.path.mntnode # last.self
    /\ ~IsDir(last.path.dentry)

\* C4 (as stated): umount fails with EINVAL if the mountpoint's node is not
\* self and with ENOENT if no child is mounted at the entry; on success it
\* returns the child that was mounted there, get on the same entry then
\* returns nothing, and the removed node's own children map is what it was.
C4_UmountRemovesChild ==
    [][last'.op = "umount" =>
           LET self == last'.self
               d == last'.path.dentry
           IN  /\ last'.path.mntnode # self => last'.res = "EINVAL"
               /\ (last'.path.mntnode = self /\ get(children, self, d) = None)
                      => last'.res = "ENOENT"
               /\ last'.res = "OK" =>
                      /\ last'.node = get(children, self, d)
                      /\ last'.node # None
                      /\ get(children', self, d) = None
                      /\ children'[last'.node] = children[last'.node]]_vars

\* C5: a failed mount, umount, bind mount or move mount leaves every node's
\* children map, parent and mountpoint dentry as they were.
C5_FailedCallChangesNothing ==
    [][(/\ last'.op \in {"mount", "umount", "loopback", "move"}
        /\ last'.res \in {"EINVAL", "ENOTDIR", "ENOENT"})
           => UNCHANGED TreeVars]_vars

\* A move mount was refused because its source is no mountpoint.
C5_Witness ==
    /\ last.op = "move" /\ last.res = "EINVAL"
    /\ alloc > 1

\* C6: a sync of node T that returns Ok has flushed the filesystem of every
\* node of T's subtree exactly once, and every node below a node before that
\* node (post-order).
C6_SyncPostOrder ==
    (last.op = "sync" /\ last.res = "OK") =>
        LET R == Reach(children, last.self)
            log == last.log
        IN  /\ Len(log) = Cardinality(R)
            /\ {log[i] : i \in 1..Len(log)} = R
            /\ \A i, j \in 1..Len(log) :
                   log[i] \in Below(children, log[j]) => i < j

\* A sync of a chain of three nodes has returned Ok.
C6_Witness ==
    /\ last.op = "sync" /\ last.res = "OK"
    /\ Len(last.log) = 3
    /\ \E n \in Below(children, last.self) : Below(children, n) # {}

\* The subtree of n is a tree: no node of it is below itself, and no node
\* is the value of two entries of the children maps of its nodes.
IsTree(ch, n) ==
    /\ ~OnCycle(ch, n)
    /\ \A m1, m2 \in Reach(ch, n) :
           \A k1 \in DOMAIN ch[m1], k2 \in DOMAIN ch[m2] :
               ch[m1][k1] = ch[m2][k2] => (m1 = m2 /\ k1 = k2)

\* C7: when sync(N) returns an error, the error is that of the last flush it
\* attempted and every flush before it succeeded; no node above the failing
\* node was flushed, N included; at any level above the failing node, no
\* later sibling of the failing child was flushed; and, the subtree of N
\* being a tree, no node of a later sibling's subtree was flushed.
C7_SyncStopsAtFirstError ==
    (last.op = "sync" /\ last.res = "EIO") =>
        LET log == last.log
            at == last.node
            R == Reach(children, last.self)
            Flushed == {log[i] : i \in 1..Len(log)}
        IN  /\ Len(log) >= 1
            /\ log[Len(log)] = at
            /\ fs[at] \in last.failing
            /\ \A i \in 1..(Len(log) - 1) : fs[log[i]] \notin last.failing
            /\ \A m \in R : at \in Below(children, m) => m \notin Flushed
            /\ \A m \in R : \A k1, k2 \in DOMAIN children[m] :
                   (k1 < k2 /\ at \in Reach(children, children[m][k1])) =>
                       /\ children[m][k2] \notin Flushed
                       /\ IsTree(children, last.self) =>
                              Flushed \cap Reach(children, children[m][k2]) = {}

\* The sync of a node's first child has failed, and the node has a later
\* child.
C7_Witness ==
    /\ last.op = "sync" /\ last.res = "EIO"
    /\ last.node # last.self
    /\ IsTree(children, last.self)
    /\ \E k1, k2 \in DOMAIN children[last.self] :
           k1 < k2 /\ children[last.self][k1] = last.node

\* The subtree of c is a copy of the subtree of o, down to depth k: the same
\* filesystem, the same keys, and under each key a child with the same root
\* dentry whose subtree is a copy again.
RECURSIVE SameShape(_, _, _, _)
SameShape(T, o, c, k) ==
    /\ T.fs[c] = T.fs[o]
    /\ DOMAIN T.children[c] = DOMAIN T.children[o]
    /\ k > 0 =>
           \A key \in DOMAIN T.children[o] :
               LET oc == T.children[o][key]
                   cc == T.children[c][key]
               IN  /\ T.root_dentry[cc] = T.root_dentry[oc]
                   /\ SameShape(T, oc, cc, k - 1)

\* The tree a step leaves.
After ==
    [alloc |-> alloc', fs |-> fs', root_dentry |-> root_dentry',
     mountpoint_dentry |-> mountpoint_dentry', parent |-> parent',
     children |-> children']

\* C8 (as stated): the clone copy_tree returns has the filesystem and the root
\* dentry of the original at every corresponding node, the root included.
C8_CloneSameRootEntry ==
    [][(last'.op = "copy_tree" /\ last'.res = "OK") =>
           /\ SameShape(After, last'.self, last'.node, MaxSlots)
           /\ root_dentry'[last'.node] = root_dentry'[last'.self]]_vars

\* C8 (amended): copy_tree(old, old_root_dentry) returns the root of a tree of
\* nodes allocated by the call, as many as the subtree of old has, with the
\* same keys and the same filesystem at every corresponding node and the same
\* root dentry at every corresponding node below the root; the root of the
\* clone has old_root_dentry as its root dentry; the call leaves every node
\* that existed as it was; and a mount or umount on a node changes the
\* children map of no other node that existed, so that a tree and its clone
\* change independently.
C8_CopyTreeIsomorphic ==
    [][/\ (last'.op = "copy_tree" /\ last'.res = "OK") =>
              LET o == last'.self
                  c == last'.node
              IN  /\ c > alloc
                  /\ Reach(children', c) = (alloc + 1)..alloc'
                  /\ Reach(children', o) \subseteq 1..alloc
                  /\ Cardinality(Reach(children', c)) = Cardinality(Reach(children', o))
                  /\ SameShape(After, o, c, MaxSlots)
                  /\ root_dentry'[c] = last'.src.dentry
                  /\ \A n \in 1..alloc :
                         /\ children'[n] = children[n]
                         /\ fs'[n] = fs[n]
                         /\ root_dentry'[n] = root_dentry[n]
       /\ (last'.op \in {"mount", "umount"} /\ last'.res = "OK") =>
              \A n \in 1..alloc : n # last'.self => children'[n] = children[n]]_vars

\* A mount has succeeded inside a clone of two nodes or more whose root
\* dentry is not the root of its dentry tree.
C8_Witness ==
    /\ last.op = "mount" /\ last.res = "OK"
    /\ \E c \in 1..alloc :
           /\ c # RootNode
           /\ parent[c] = None
           /\ root_dentry[c].name # 0
           /\ Below(children, c) \ {last.node} # {}
           /\ last.self \in Reach(children, c)

\* C9 (as stated): the root of the clone copy_tree returns has no mountpoint
\* dentry and no parent, whatever the node copied.
C9_CloneRootDetached ==
    (last.op = "copy_tree" /\ last.res = "OK") =>
        /\ mountpoint_dentry[last.node] = NoDentry
        /\ parent[last.node] = None

\* C10 (as stated): a bind mount or a move mount that reaches attach_mnt with
\* a destination entry that is not a directory fails with ENOTDIR and leaves
\* the destination's mapping as it was; one that succeeds leaves the node
\* under the destination's key, with the destination as its mountpoint dentry
\* and parent.
C10_AttachValidates ==
    [][last'.op \in {"loopback", "move"} =>
           LET dest == last'.path IN
           /\ (~IsDir(dest.dentry) /\ last'.res \in {"OK", "ENOTDIR"}) =>
                  /\ last'.res = "ENOTDIR"
                  /\ get(children', dest.mntnode, dest.dentry)
                         = get(children, dest.mntnode, dest.dentry)
           /\ last'.res = "OK" =>
                  /\ get(children', dest.mntnode, dest.dentry) = last'.node
                  /\ mountpoint_dentry'[last'.node] = dest.dentry
                  /\ parent'[last'.node] = dest.mntnode]_vars

\* C11 (as stated): a thread that has found a child with get under entry E of
\* node P, and then read the child's mountpoint dentry and parent, has read E
\* and P.
C11_FoundChildConsistent ==
    walker.pc = "done" =>
        /\ walker.parent = walker.at.mntnode
        /\ walker.mp = walker.at.dentry

\* C12 (as stated): the (parent, mountpoint dentry) pair a thread reads from
\* a node it holds is the pair the node had when the thread took it, or the
\* pair of the destination of one move of that node: never the mountpoint
\* dentry of one with the parent of another.
C12_PairNotTorn ==
    walker.pc = "done" =>
        \/ /\ walker.parent = walker.snap_parent
           /\ walker.mp = walker.snap_mp
        \/ \E t \in Movers :
               /\ mv[t].node = walker.found
               /\ walker.parent = mv[t].dst.mntnode
               /\ walker.mp = mv[t].dst.dentry

\* The entries of children maps that hold node n.
LocationsOf(ch, n) ==
    {e \in NodeIds \X (0..(KeyStride * (MaxSlots + 1))) :
        e[2] \in DOMAIN ch[e[1]] /\ ch[e[1]][e[2]] = n}

\* C15 (as stated): in every state, the intermediate states of a move mount
\* included, a node is the value of at most one entry of the children maps.
C15_OneLocation ==
    \A n \in 1..alloc : Cardinality(LocationsOf(children, n)) <= 1

\* C13 (as stated): node A is mounted at entry a of node P and the source of
\* a move mount resolves to A's root; after the move to another entry b,
\* get at a returns nothing, get at b returns A with the filesystem and the
\* children map it had, and A's parent and mountpoint dentry are b's node
\* and b.
C13_MoveMountEndToEnd ==
    [][(/\ last'.op = "move" /\ last'.res = "OK"
        /\ is_root_of_mount(last'.src.dentry)
        /\ parent[last'.src.mntnode] # None
        /\ get(children, parent[last'.src.mntnode],
               mountpoint_dentry[last'.src.mntnode]) = last'.src.mntnode
        /\ last'.path # [mntnode |-> parent[last'.src.mntnode],
                         dentry |-> mountpoint_dentry[last'.src.mntnode]]) =>
           LET A == last'.src.mntnode
               b == last'.path
           IN  /\ get(children', parent[A], mountpoint_dentry[A]) = None
               /\ get(children', b.mntnode, b.dentry) = A
               /\ last'.node = A
               /\ fs'[A] = fs[A]
               /\ children'[A] = children[A]
               /\ parent'[A] = b.mntnode
               /\ mountpoint_dentry'[A] = b.dentry]_vars

\* C14 (as stated): a move mount whose source resolves to an entry that is
\* not the root of its mount fails with EINVAL and changes nothing, whether
\* the source's node has a parent or not.
C14_MoveSourceMustBeMountpoint ==
    [][(/\ last'.op = "move"
        /\ last'.src # NoPath
        /\ ~is_root_of_mount(last'.src.dentry)) =>
           /\ last'.res = "EINVAL"
           /\ UNCHANGED TreeVars]_vars

\* The source of a bind mount: node A, mounted at entry a of node P, found
\* there, the source path being A's root; dst is another entry than a.
BindOfMounted(par, mp, ch, src, dst) ==
    LET A == src.mntnode IN
    /\ is_root_of_mount(src.dentry)
    /\ par[A] # None
    /\ mp[A] # NoDentry
    /\ get(ch, par[A], mp[A]) = A
    /\ dst # [mntnode |-> par[A], dentry |-> mp[A]]

\* C16 (as stated): fsA is mounted at src (node A).  After a bind mount of
\* src to dst there are two distinct nodes with A's filesystem, the clone
\* found at dst and A found at src; an umount of dst that follows leaves A
\* found at src, with the filesystem and the children map it had.
C16_BindMountEndToEnd ==
    [][/\ (/\ last'.op = "loopback" /\ last'.res = "OK"
           /\ BindOfMounted(parent, mountpoint_dentry, children, last'.src, last'.path)) =>
              LET A == last'.src.mntnode
                  c == last'.node
              IN  /\ c # A
                  /\ fs'[c] = fs'[A]
                  /\ fs'[A] = fs[A]
                  /\ get(children', last'.path.mntnode, last'.path.dentry) = c
                  /\ get(children', parent[A], mountpoint_dentry[A]) = A
       /\ (/\ last.op = "loopback" /\ last.res = "OK"
           /\ BindOfMounted(parent, mountpoint_dentry, children, last.src, last.path)
           /\ last'.op = "umount" /\ last'.res = "OK"
           /\ last'.path = last.path) =>
              LET A == last.src.mntnode IN
              /\ last'.node = last.node
              /\ get(children', parent[A], mountpoint_dentry[A]) = A
              /\ fs'[A] = fs[A]
              /\ children'[A] = children[A]]_vars

\* C16 (amended): as above, but the umount of dst leaves A's children map as
\* it was only where dst is not an entry of A itself; where it is, the umount
\* removes dst's entry from A's children map and nothing else.
C16_BindMountIndependent ==
    [][/\ (/\ last'.op = "loopback" /\ last'.res = "OK"
           /\ BindOfMounted(parent, mountpoint_dentry, children, last'.src, last'.path)) =>
              LET A == last'.src.mntnode
                  c == last'.node
              IN  /\ c # A
                  /\ fs'[c] = fs'[A]
                  /\ fs'[A] = fs[A]
                  /\ get(children', last'.path.mntnode, last'.path.dentry) = c
                  /\ get(children', parent[A], mountpoint_dentry[A]) = A
       /\ (/\ last.op = "loopback" /\ last.res = "OK"
           /\ BindOfMounted(parent, mountpoint_dentry, children, last.src, last.path)
           /\ last'.op = "umount" /\ last'.res = "OK"
           /\ last'.path = last.path) =>
              LET A == last.src.mntnode IN
              /\ last'.node = last.node
              /\ get(children', parent[A], mountpoint_dentry[A]) = A
              /\ fs'[A] = fs[A]
              /\ children'[A] = IF last.path.mntnode = A
                                THEN MapRemove(children[A], Key(last.path.dentry))
                                ELSE children[A]]_vars

\* The clone of a mounted node A has been unmounted from an entry of another
\* node, and A is still found where it is mounted, with children of its own.
C16_Witness ==
    /\ last.op = "umount" /\ last.res = "OK"
    /\ \E A \in 1..alloc :
           /\ A # last.node
           /\ fs[A] = fs[last.node]
           /\ last.self # A
           /\ parent[A] # None
           /\ get(children, parent[A], mountpoint_dentry[A]) = A
           /\ children[A] # EmptyMap

\* The nodes of the copy c of the subtree of o that stand where n stands in
\* the subtree of o: reached from c by the keys that reach n from o.
RECURSIVE Corresponding(_, _, _, _, _)
Corresponding(ch, o, c, n, k) ==
    IF n = o THEN {c}
    ELSE IF k = 0 THEN {}
    ELSE UNION {Corresponding(ch, ch[o][key], ch[c][key], n, k - 1) :
                    key \in DOMAIN ch[o] \cap DOMAIN ch[c]}

\* C17: after an unshare of the mount namespace, root and cwd of the process
\* that pointed at a node of the old tree point at the corresponding node
\* of the new tree, with the same dentry; after that, a mount or umount on
\* the old tree changes nothing that is reachable from the root or the cwd
\* of the process, and a mount or umount on the new tree changes no node of
\* the old tree.
C17_UnsharePrivate ==
    [][/\ (last'.op = "unshare" /\ last'.res = "OK") =>
              \A which \in {"root", "cwd"} :
                  proc[which].mntnode \in Reach(children, RootNode) =>
                      /\ proc'[which].dentry = proc[which].dentry
                      /\ proc'[which].mntnode \in
                             Corresponding(children', RootNode, last'.node,
                                           proc[which].mntnode, MaxSlots)
       /\ (/\ proc.ns # RootNode
           /\ last'.op \in {"mount", "umount"}
           /\ last'.self \in Reach(children, RootNode)) =>
              \A n \in Reach(children, proc.root.mntnode) \cup
                        Reach(children, proc.cwd.mntnode) :
                  /\ children'[n] = children[n]
                  /\ fs'[n] = fs[n]
                  /\ root_dentry'[n] = root_dentry[n]
       /\ (/\ proc.ns # RootNode
           /\ last'.op \in {"mount", "umount"}
           /\ last'.self \in Reach(children, proc.ns)) =>
              \A n \in Reach(children, RootNode) :
                  /\ children'[n] = children[n]
                  /\ fs'[n] = fs[n]
                  /\ root_dentry'[n] = root_dentry[n]]_vars

\* C18: a reader of the proxy obtains a pair of handles the proxy has held
\* between calls of set_namespaces: the old pair or the new pair of a call,
\* never the new mount namespace with the old network namespace, or the
\* reverse.
C18_NoPartialUpdate ==
    getter.pc = "done" => <<getter.mnt_ns, getter.net_ns>> \in nsproxy.held

\* A reader has read the proxy after set_namespaces changed both handles.
C18_Witness ==
    /\ getter.pc = "done"
    /\ getter.mnt_ns # 0 /\ getter.net_ns # 0

\* C19: a sys_umount with a flag bit outside MNT_FORCE, MNT_DETACH,
\* MNT_EXPIRE and UMOUNT_NOFOLLOW returns EINVAL and removes no child from
\* any children map.
C19_UmountRejectsUnknownFlags ==
    [][(/\ sys'.n # sys.n
        /\ sys'.call = "umount"
        /\ sys'.flags \ {MNT_FORCE, MNT_DETACH, MNT_EXPIRE, UMOUNT_NOFOLLOW} # {}) =>
           /\ sys'.ret = "EINVAL"
           /\ children' = children]_vars

\* C20: a sys_mount whose target resolves runs exactly one flow, chosen by
\* the low 32 bits of the flags in this precedence: REMOUNT with BIND,
\* reconfigure; else REMOUNT, remount; else BIND, bind mount; else any of
\* SHARED, PRIVATE, SLAVE, UNBINDABLE, change type; else MOVE, move mount;
\* else a fresh mount.  Only the bind, move and fresh-mount flows touch the
\* tree, each recorded under its own name; BIND with REMOUNT runs neither
\* the bind mount nor the remount, BIND with MOVE never the move mount.  A
\* call whose target does not resolve runs no flow.
C20_FlowPrecedence ==
    [][(sys'.n # sys.n /\ sys'.call = "mount") =>
           LET has(b) == b \in sys'.flags
               type == has(MS_SHARED) \/ has(MS_PRIVATE) \/ has(MS_SLAVE) \/ has(MS_UNBINDABLE)
               flow == sys'.flow
           IN  IF sys'.target = NoPath
               THEN flow = "none" /\ UNCHANGED TreeVars
               ELSE /\ flow = "do_reconfigure_mnt" <=> (has(MS_REMOUNT) /\ has(MS_BIND))
                    /\ flow = "do_remount" <=> (has(MS_REMOUNT) /\ ~has(MS_BIND))
                    /\ flow = "do_loopback" <=> (has(MS_BIND) /\ ~has(MS_REMOUNT))
                    /\ flow = "do_change_type" <=>
                           (type /\ ~has(MS_BIND) /\ ~has(MS_REMOUNT))
                    /\ flow = "do_move_mount_old" <=>
                           (has(MS_MOVE) /\ ~type /\ ~has(MS_BIND) /\ ~has(MS_REMOUNT))
                    /\ flow = "do_new_mount" <=>
                           (~has(MS_MOVE) /\ ~type /\ ~has(MS_BIND) /\ ~has(MS_REMOUNT))
                    /\ flow \in {"do_reconfigure_mnt", "do_remount", "do_change_type"} =>
                           UNCHANGED TreeVars
                    /\ flow = "do_loopback" => last'.op = "loopback"
                    /\ flow = "do_move_mount_old" => last'.op = "move"
                    /\ flow = "do_new_mount" => last'.op = "mount"
                    /\ (has(MS_BIND) /\ has(MS_REMOUNT)) =>
                           last'.op \notin {"loopback", "do_remount"}
                    /\ (has(MS_BIND) /\ has(MS_MOVE)) => last'.op # "move"]_vars

\* A sys_mount with MS_BIND and MS_REMOUNT has run the reconfigure flow on
\* a tree that holds a mount.
C20_Witness ==
    /\ sys.call = "mount"
    /\ {MS_BIND, MS_REMOUNT} \subseteq sys.flags
    /\ sys.flow = "do_reconfigure_mnt"
    /\ children[RootNode] # EmptyMap

\* C21: sys_mount returns 0 only when the flow it selected succeeded: when
\* the bind-mount, move-mount or fresh-mount flow fails, sys_mount returns
\* the error of the flow.
C21_MountReturnsFlowError ==
    [][(/\ sys'.n # sys.n
        /\ sys'.call = "mount"
        /\ sys'.flow \in {"do_loopback", "do_move_mount_old", "do_new_mount"}
        /\ last'.res # "OK") =>
           sys'.ret = last'.res]_vars

\* The ancestors of n along parent links, at most k of them.
RECURSIVE Ancestors(_, _, _)
Ancestors(par, n, k) ==
    IF k = 0 \/ par[n] = None THEN {}
    ELSE {par[n]} \cup Ancestors(par, par[n], k - 1)

\* C22: after any sequence of mount, umount, bind-mount, move-mount and
\* copy_tree calls every mount tree is acyclic: no node is below itself in
\* the children maps or among its own ancestors, and the namespace root has
\* no parent and no mountpoint.
C22_TreesAcyclic ==
    /\ \A n \in 1..alloc :
           /\ n \notin Below(children, n)
           /\ n \notin Ancestors(parent, n, MaxSlots)
    /\ parent[RootNode] = None
    /\ mountpoint_dentry[RootNode] = NoDentry

\* C23: between calls parent and children agree: a node with parent P and
\* mountpoint dentry E is held by P's children map under the key of E (the
\* node an umount has removed and returned included), and the node a
\* children map of P holds under key k has parent P and a mountpoint dentry
\* of key k.
C23_ParentChildrenAgree ==
    /\ \A n \in 1..alloc :
           (parent[n] # None /\ mountpoint_dentry[n] # NoDentry) =>
               get(children, parent[n], mountpoint_dentry[n]) = n
    /\ \A p \in 1..alloc : \A k \in DOMAIN children[p] :
           /\ parent[children[p][k]] = p
           /\ mountpoint_dentry[children[p][k]] # NoDentry
           /\ Key(mountpoint_dentry[children[p][k]]) = k

\* C24: a thread that walks a tree holds at most one children lock at a
\* time: in a sync that returned Ok, in a copy_tree that returned (on its
\* own or in a bind mount), and in process_move.
C24_OneChildrenLock ==
    /\ (last.op = "sync" /\ last.res = "OK") =>
           sync_locks(Cur, last.self, {}) <= 1
    /\ (last.op \in {"copy_tree", "loopback"} /\ last.res = "OK") =>
           copy_tree_locks(Cur, last.src.mntnode) <= 1
    /\ (last.op = "unshare" /\ last.res = "OK") =>
           process_move_locks(Cur, last.node) <= 1

\* The subtree of the clone c is wired as the subtree of the original o is,
\* down to depth k: each child of o, held under a key by a parent that is o,
\* has a clone held by c under the same key, whose parent is c and whose
\* mountpoint dentry is the child's; c holds nothing else.
RECURSIVE Paired(_, _, _, _)
Paired(T, o, c, k) ==
    /\ DOMAIN T.children[c] = DOMAIN T.children[o]
    /\ k > 0 =>
           \A key \in DOMAIN T.children[o] :
               LET oc == T.children[o][key]
                   cc == T.children[c][key]
               IN  /\ cc # oc
                   /\ T.parent[oc] = o
                   /\ T.parent[cc] = c
                   /\ T.mountpoint_dentry[cc] = T.mountpoint_dentry[oc]
                   /\ Key(T.mountpoint_dentry[cc]) = key
                   /\ T.fs[cc] = T.fs[oc]
                   /\ Paired(T, oc, cc, k - 1)

\* C25: the two stacks of copy_tree stay paired: in the tree a copy_tree
\* returns, every clone's parent is the clone of its original's parent, and
\* the clone is held by that parent under the key its original has in the
\* original's parent.
C25_StacksPaired ==
    [][(last'.op = "copy_tree" /\ last'.res = "OK") =>
           /\ Paired(After, last'.self, last'.node, MaxSlots)
           /\ Cardinality(Reach(children', last'.node)) =
                  Cardinality(Reach(children', last'.self))]_vars

\* A tree has been copied whose root has two children, one of them with a
\* child of its own.
C25_Witness ==
    /\ last.op = "copy_tree" /\ last.res = "OK"
    /\ Cardinality(DOMAIN children[last.self]) >= 2
    /\ \E k \in DOMAIN children[last.self] :
           children[children[last.self][k]] # EmptyMap
    /\ Cardinality(Reach(children, last.node)) >= 4

\* C26: no call deadlocks on children locks: no sync comes to a children
\* lock its own thread holds, and no two nodes are below each other, so that
\* two syncs that hold a parent's lock while they take a child's never take
\* two locks in opposite orders.
C26_NoDeadlock ==
    /\ last.op = "sync" => last.res # "hang"
    /\ \A a, b \in 1..alloc :
           a # b => ~(b \in Below(children, a) /\ a \in Below(children, b))

\* C27: sync and copy_tree (on its own or in a bind mount) return on every
\* tree that mounts, umounts, bind mounts and move mounts build: no walk
\* goes on for ever.
C27_WalksTerminate ==
    last.op \in {"sync", "copy_tree", "loopback"} => last.res # "hang"

\* What a walk from node n sees, whichever thread allocated the nodes first:
\* the filesystem, root dentry and mountpoint dentry of n, whether its parent
\* is the node the walk came from, and under each key what the walk sees
\* from the child, k levels down.  A root dentry made by one of the two
\* calls is told from the others by the filesystem of the node.
RECURSIVE Shape(_, _, _, _, _)
Shape(T, n, up, old, k) ==
    [fs |-> T.fs[n],
     rd |-> IF T.root_dentry[n].tree \in old THEN T.root_dentry[n]
            ELSE [tree |-> MaxSlots + 1, name |-> T.root_dentry[n].name],
     mp |-> T.mountpoint_dentry[n],
     par |-> IF T.parent[n] = up THEN "up"
             ELSE IF T.parent[n] = None THEN "none" ELSE "other",
     kids |-> IF k = 0 THEN EmptyMap
              ELSE [key \in DOMAIN T.children[n] |->
                        Shape(T, T.children[n][key], n, old, k - 1)]]

\* The tree as seen from the nodes that existed before the two calls began.
View(T, old) ==
    [n \in old |-> [parent |-> T.parent[n],
                    shape |-> Shape(T, n, T.parent[n], old, MaxParNodes)]]

\* The tree after one of the two calls has run alone on T.
Serial(T, op) ==
    IF op.kind = "mount" THEN mount(T, op.path.mntnode, op.f, op.path).T
    ELSE IF op.kind = "umount" THEN umount(T, op.path.mntnode, op.path).T
    ELSE do_loopback(T, op.src, op.path, MaxParNodes).T

\* The call a copies a subtree that holds the node the call b works on.
CopiesOver(T, a, b) ==
    a.kind = "bind" /\ b.path.mntnode \in Reach(T.children, a.src.mntnode)

\* Two calls on different entries or different nodes, neither copying a
\* subtree the other changes.
Independent(T, a, b) ==
    /\ EntryOf(a) # EntryOf(b)
    /\ ~CopiesOver(T, a, b)
    /\ ~CopiesOver(T, b, a)

\* A step changes, among the nodes of old, nothing but the entry of node N
\* under key: the other keys of N, the children maps of the other nodes, and
\* the parent and the mountpoint dentry of every node are as they were.
FrameAt(N, key, old) ==
    /\ \A n \in old :
           /\ n # N => children'[n] = children[n]
           /\ parent'[n] = parent[n]
           /\ mountpoint_dentry'[n] = mountpoint_dentry[n]
    /\ DOMAIN children'[N] \ {key} = DOMAIN children[N] \ {key}
    /\ \A k \in DOMAIN children[N] \ {key} : children'[N][k] = children[N][k]

\* Every step of a mount, umount or bind at entry E of node N, called alone
\* or by one of two threads, leaves all but N's entry for the key of E as it
\* was in the nodes that existed before the call.
FrameHolds ==
    /\ (/\ last' # last
        /\ last'.op \in {"mount", "umount"}
        /\ last'.res = "OK") =>
           FrameAt(last'.self, Key(last'.path.dentry), 1..alloc)
    /\ \A t \in {1, 2} :
           (twin.pc = "run" /\ twin'.th[t] # twin.th[t]) =>
               FrameAt(twin.th[t].path.mntnode, Key(twin.th[t].path.dentry),
                       1..twin.T0.alloc)

\* The two threads have just finished, both with success.
BothDone ==
    /\ twin' # twin
    /\ twin'.pc = "run"
    /\ \A t \in {1, 2} : twin'.th[t].pc = "done"

\* The tree is the one both serial orders of the two calls give.
EitherOrder ==
    LET a == twin'.th[1]
        b == twin'.th[2]
        old == 1..twin'.T0.alloc
    IN  /\ View(After, old) = View(Serial(Serial(twin'.T0, a), b), old)
        /\ View(After, old) = View(Serial(Serial(twin'.T0, b), a), old)
        /\ After.alloc = Serial(Serial(twin'.T0, a), b).alloc

====
